---- MODULE Spec2Model ----
(***************************************************************************)
(* One call of SearchService.search_single and the scraper session it      *)
(* drives (GoogleSearchWithSession.search / GoogleSimpleScraper.search).   *)
(* Every awaited browser operation is a step that either succeeds or       *)
(* raises; the rendered page is chosen when the results container appears. *)
(* Above it, the two loops that run search_single once per query           *)
(* (SearchService.search_batch and run_batch_search_background) and the    *)
(* JobService map that tracks the background jobs.                         *)
(***************************************************************************)
EXTENDS Integers, Sequences, FiniteSets, TLC

\* ------------------------------------------------------------------ bounds
MaxCands == 2        \* candidate result blocks on the rendered page
MaxResultsBound == 2 \* largest max_results requested
MaxFaults == 1       \* operations that raise in one call, the screenshot aside
MaxQueries == 2      \* queries in one batch request
MaxJobs == 2         \* background jobs created

\* --------------------------------------------------------------- constants
PaaCap == 6
RelatedCap == 8
VideoCap == 3
AdsCap == 5
LocalCap == 3
SitelinkCap == 4

\* ----------------------------------------------------------- python values
NoElem == "<no element>"   \* locator.count() == 0
PyNone == "<None>"         \* a Python None
NoExc == "<no exception>"
NoneObj == [py |-> "None"] \* None where a dict is expected
NoDoc == [absent |-> TRUE] \* search_data not yet bound
NoResp == [absent |-> TRUE]
NoPage == [absent |-> TRUE] \* nothing rendered yet
EmptyDict == [k \in {} |-> 0]

Min(a, b) == IF a < b THEN a ELSE b

\* s[:n]
Take(s, n) == SubSeq(s, 1, Min(n, Len(s)))

\* number of occurrences of x in the sequence s
Count(s, x) == Cardinality({i \in 1..Len(s) : s[i] = x})

\* a dict literal restricted to the keys whose probe found an element
Probed(item) == [k \in {f \in DOMAIN item : item[f] # NoElem} |-> item[k]]

VARIABLES
  mode,          \* SearchMode of the request
  max_results,   \* requested cap on organic results
  page,          \* what the browser renders once the query is submitted
  pc,            \* position inside search_single / search
  search_data,   \* the result document under construction
  context,       \* browser resource: "none", "open", "closed"
  playwright,    \* async_playwright() manager: "off", "on", "stopped"
  exc,           \* exception in flight
  log,           \* steps attempted so far, in order
  failed,        \* steps that raised
  state_file,    \* number of times state.json was written
  returned,      \* value search() returned to search_single
  response,      \* SearchResponse built by search_single
  jobs,          \* JobService.jobs: job id -> job dict
  tasks,         \* run_batch_search_background coroutines, by job id
  next_job,      \* number of job ids handed out so far
  deleted,       \* cleared_count of the latest DELETE /api/jobs response
  batch,         \* the search_batch coroutine of one POST /api/search/batch
  sessions       \* search_single calls in progress

session_vars == <<page, pc, search_data, context, playwright, exc, log,
                  failed, state_file, returned, response>>

loop_vars == <<jobs, tasks, next_job, deleted, batch, sessions>>

vars == <<mode, max_results, session_vars, loop_vars>>

\* what one search_single call never touches
inputs == <<mode, max_results, loop_vars>>

\* ------------------------------------------------------------ rendered page
Query == "python asyncio tutorial"
Now == "2024-01-01T00:00:00"
SearchUrl == "https://www.google.com/search?q=python+asyncio+tutorial"
ScreenshotPath == "results/screenshots/error_20240101_000000.png"

\* text_content() of the first h3 of a candidate block: no h3 at all, a None
\* text, an empty text or a real title
TitleProbes == {NoElem, PyNone, "", "a", "b"}

\* get_attribute('href') of the first a[href] of a candidate block
AbsLink == "https://docs.python.org/3/library/asyncio.html"
PortLink == "https://user@example.com:8080/path"
RelLink == "/search?q=asyncio"
BadLink == "not a url"
BracketLink == "http://[::1/asyncio"
LinkProbes == {NoElem, PyNone, "", AbsLink, PortLink, RelLink, BadLink, BracketLink}

\* the .HiHjCd anchors of a block, each with its text_content() and href
GoodSitelink(k) == [text |-> "section", href |-> "https://docs.python.org/#" \o ToString(k)]
SitelinkLists ==
  {<<>>,
   [k \in 1..(SitelinkCap + 1) |-> GoodSitelink(k)],
   <<[text |-> "", href |-> "https://docs.python.org/#x"], GoodSitelink(1),
     [text |-> "section", href |-> PyNone]>>}

\* a block that carries an h3 probe and nothing else
Plain(title) ==
  [title |-> title, link |-> NoElem, snippet |-> NoElem, date |-> NoElem,
   sitelinks |-> <<>>, rating |-> NoElem]

Candidates == {Plain(title) : title \in TitleProbes}

\* blocks that also carry a link, a snippet, a date, sitelinks or a rating
RichCandidates ==
  Candidates
    \cup {[Plain("a") EXCEPT !.link = l] : l \in LinkProbes}
    \cup {[Plain("b") EXCEPT !.link = AbsLink, !.snippet = "a library",
                             !.date = "3 days ago", !.rating = "Rated 4.5",
                             !.sitelinks = sl] : sl \in SitelinkLists}

SeqsUpTo(S, n) == UNION {[1..k -> S] : k \in 0..n}

\* a page on which every optional region is rendered
RichRegions ==
  [stats    |-> "About 10 results",
   featured |-> [text |-> "asyncio is a library", source |-> "https://docs.example/asyncio"],
   paa      |-> <<" what is asyncio? ", "", "is asyncio fast?">>,
   related  |-> <<"asyncio gather ", PyNone>>,
   videos   |-> [section |-> TRUE,
                 items |-> <<[title |-> "intro", duration |-> NoElem, source |-> "tube"],
                             [title |-> NoElem, duration |-> NoElem, source |-> NoElem]>>],
   ads      |-> <<[title |-> "course", display_url |-> "ads.example", description |-> NoElem]>>,
   local    |-> [pack |-> TRUE,
                 items |-> <<[name |-> "py cafe", rating |-> "4.5", reviews |-> NoElem]>>]]

\* a page that shows the results container and nothing else
BareRegions ==
  [stats    |-> NoElem,
   featured |-> [text |-> NoElem, source |-> NoElem],
   paa      |-> <<>>,
   related  |-> <<>>,
   videos   |-> [section |-> FALSE, items |-> <<>>],
   ads      |-> <<>>,
   local    |-> [pack |-> FALSE, items |-> <<>>]]

RegionVariants == {RichRegions, BareRegions}

\* the rich page without the featured-snippet markup
FeaturelessRegions ==
  [RichRegions EXCEPT !.featured = [text |-> NoElem, source |-> NoElem]]

\* a page on which every list region renders one item more than its cap
CrowdedRegions ==
  [stats    |-> "About 1,000 results",
   featured |-> [text |-> "asyncio is a library", source |-> NoElem],
   paa      |-> [k \in 1..(PaaCap + 1) |-> "why asyncio?"],
   related  |-> [k \in 1..(RelatedCap + 1) |-> "asyncio queue"],
   videos   |-> [section |-> TRUE,
                 items |-> [k \in 1..(VideoCap + 1) |->
                              [title |-> "talk", duration |-> "10:00", source |-> "tube"]]],
   ads      |-> [k \in 1..(AdsCap + 1) |->
                   [title |-> "course", display_url |-> "ads.example", description |-> "learn"]],
   local    |-> [pack |-> TRUE,
                 items |-> [k \in 1..(LocalCap + 1) |->
                              [name |-> "py cafe", rating |-> "4.5", reviews |-> "(12)"]]]]

Pages == {[result_divs |-> d, regions |-> r] :
            d \in SeqsUpTo(Candidates, MaxCands), r \in RegionVariants}

\* the pages extraction is applied to on its own: every kind of candidate
\* block under a bare and a crowded page, every kind of page over plain blocks
ExtractPages ==
  {[result_divs |-> d, regions |-> r] :
     d \in SeqsUpTo(RichCandidates, MaxCands), r \in {BareRegions, CrowdedRegions}}
  \cup {[result_divs |-> d, regions |-> r] :
          d \in SeqsUpTo({Plain("a")}, MaxCands),
          r \in RegionVariants \cup {FeaturelessRegions, CrowdedRegions}}

\* ------------------------------------------------------- result extraction
\* str.strip() on the texts the pages above carry
Strip(s) ==
  CASE s = " what is asyncio? " -> "what is asyncio?"
    [] s = "asyncio gather "    -> "asyncio gather"
    [] OTHER                    -> s

Truthy(s) == s # PyNone /\ s # "" /\ s # NoElem

\* urlparse(url).netloc: what stands between "//" and the next "/"
Netloc(url) ==
  CASE url = AbsLink  -> "docs.python.org"
    [] url = PortLink -> "user@example.com:8080"
    [] OTHER          -> ""

\* urlparse raises ValueError("Invalid IPv6 URL") on an unbalanced bracket
UrlparseRaises(url) == url = BracketLink

\* result['link'] and result['domain'], set only when an a[href] is found
LinkFields(div) ==
  IF div.link = NoElem THEN EmptyDict
  ELSE [link |-> div.link,
        domain |-> IF div.link \in {PyNone, ""} THEN "" ELSE Netloc(div.link)]

\* the sitelinks list: the first four anchors that have a text and a href
RECURSIVE SitelinksFrom(_)
SitelinksFrom(elems) ==
  IF elems = <<>> THEN <<>>
  ELSE (IF Truthy(Head(elems).text) /\ Truthy(Head(elems).href)
          THEN <<[text |-> Head(elems).text, link |-> Head(elems).href]>>
          ELSE <<>>)
       \o SitelinksFrom(Tail(elems))

\* date, sitelinks and rating, which only the session scraper reads
SessionFields(div) ==
  IF mode = "session"
  THEN Probed([date |-> div.date, rating |-> div.rating])
         @@ (IF SitelinksFrom(Take(div.sitelinks, SitelinkCap)) = <<>> THEN EmptyDict
             ELSE [sitelinks |-> SitelinksFrom(Take(div.sitelinks, SitelinkCap))])
  ELSE EmptyDict

ResultForKeepingEmpty(i, div) ==
  IF div.title = NoElem THEN <<>>
  ELSE IF div.title = PyNone THEN <<>>
  ELSE IF div.link # NoElem /\ UrlparseRaises(div.link) THEN <<>>
  ELSE <<[position |-> i, title |-> div.title] @@ LinkFields(div)
           @@ Probed([snippet |-> div.snippet]) @@ SessionFields(div)>>

\* the body of the per-candidate try: the dict appended for candidate i, or
\* nothing when the title is missing, empty, or reading a field raised
ResultFor(i, div) ==
  IF div.title = NoElem THEN <<>>                       \* 'title' not in result
  ELSE IF div.title = PyNone THEN <<>>                  \* result['title'][:50] raises
  ELSE IF div.link # NoElem /\ UrlparseRaises(div.link) THEN <<>>
  ELSE IF div.title = "" THEN <<>>                      \* falsy title
  ELSE <<[position |-> i, title |-> div.title] @@ LinkFields(div)
           @@ Probed([snippet |-> div.snippet]) @@ SessionFields(div)>>

RECURSIVE OrganicFrom(_, _)
OrganicFrom(divs, i) ==
  IF i > Len(divs) THEN <<>>
  ELSE ResultFor(i, divs[i]) \o OrganicFrom(divs, i + 1)

\* variant: drop the title-less candidates first, then cut to n
ExtractOrganicFilterFirst(result_divs, n) ==
  Take(OrganicFrom(result_divs, 1), n)

\* for i, div in enumerate(result_divs[:max_results], 1)
ExtractOrganic(result_divs, n) == OrganicFrom(Take(result_divs, n), 1)

RECURSIVE StrippedTexts(_)
StrippedTexts(items) ==
  IF items = <<>> THEN <<>>
  ELSE (IF Truthy(Head(items)) THEN <<Strip(Head(items))>> ELSE <<>>)
       \o StrippedTexts(Tail(items))

RECURSIVE ProbedItems(_)
ProbedItems(items) ==
  IF items = <<>> THEN <<>>
  ELSE (IF DOMAIN Probed(Head(items)) # {} THEN <<Probed(Head(items))>> ELSE <<>>)
       \o ProbedItems(Tail(items))

ExtractMetadataOf(r) == Probed([result_stats |-> r.stats]) @@ [url |-> SearchUrl]

ExtractFeaturedUnchecked(r) ==
  [text |-> r.featured.text,
   source |-> IF r.featured.source = NoElem THEN PyNone ELSE r.featured.source]

ExtractFeaturedOf(r) ==
  IF r.featured.text = NoElem THEN NoneObj
  ELSE [text |-> r.featured.text,
        source |-> IF r.featured.source = NoElem THEN PyNone ELSE r.featured.source]

ExtractPaaOf(r) == StrippedTexts(Take(r.paa, PaaCap))
ExtractRelatedOf(r) == StrippedTexts(Take(r.related, RelatedCap))
ExtractVideosOf(r) ==
  IF r.videos.section THEN ProbedItems(Take(r.videos.items, VideoCap)) ELSE <<>>
ExtractAdsUncapped(r) == ProbedItems(r.ads)
ExtractAdsOf(r) == ProbedItems(Take(r.ads, AdsCap))
ExtractLocalOf(r) ==
  IF r.local.pack THEN ProbedItems(Take(r.local.items, LocalCap)) ELSE <<>>

\* the dict literal bound to search_data before navigation
NewSearchData ==
  [query |-> Query, timestamp |-> Now, search_metadata |-> EmptyDict,
   organic_results |-> <<>>, people_also_ask |-> <<>>, related_searches |-> <<>>,
   featured_snippet |-> NoneObj, knowledge_panel |-> PyNone, ads |-> <<>>,
   local_results |-> <<>>, video_results |-> <<>>, news_results |-> <<>>,
   shopping_results |-> <<>>]

\* ------------------------------------------------------------------- steps
\* the exception a failing step raises
ExcOf(step) ==
  CASE step = "wait_for_selector" -> "TimeoutError"
    [] step \in {"construct", "storage_state"} -> "OSError"
    [] OTHER -> "Error"

Session == mode = "session"

CanFail == Cardinality(failed) < MaxFaults

\* the step is attempted and succeeds
Ok(step) == /\ log' = Append(log, step)
            /\ failed' = failed

\* the step is attempted and raises
Raises(step) == /\ CanFail
                /\ log' = Append(log, step)
                /\ failed' = failed \cup {step}

NoBatch == [absent |-> TRUE] \* no batch request received

\* no search_single call has started
SessionStart ==
  /\ page = NoPage
  /\ pc = "construct"
  /\ search_data = NoDoc
  /\ context = "none"
  /\ playwright = "off"
  /\ exc = NoExc
  /\ log = <<>>
  /\ failed = {}
  /\ state_file = 0
  /\ returned = NoDoc
  /\ response = NoResp

\* JobService.__init__ (job_service.py line 16): no job, no request yet
LoopsIdle ==
  /\ jobs = EmptyDict
  /\ tasks = EmptyDict
  /\ next_job = 0
  /\ deleted = NoResp
  /\ batch = NoBatch
  /\ sessions = {}

Init ==
  /\ mode \in {"session", "simple"}
  /\ max_results \in 1..MaxResultsBound
  /\ SessionStart
  /\ LoopsIdle

\* search_single, lines 61-75: build the scraper for the mode. The session
\* scraper's constructor creates the profile directory and may raise.
Construct ==
  /\ pc = "construct"
  /\ \/ /\ Ok("construct")
        /\ pc' = "async_playwright"
        /\ exc' = exc
     \/ /\ Session
        /\ Raises("construct")
        /\ exc' = ExcOf("construct")
        /\ pc' = "except_single"
  /\ UNCHANGED <<inputs, page, search_data, context, playwright, state_file, returned, response>>

\* async with async_playwright() as p: entered outside the try
PlaywrightStart ==
  /\ pc = "async_playwright"
  /\ \/ /\ Ok("async_playwright")
        /\ playwright' = "on"
        /\ pc' = "launch"
        /\ exc' = exc
     \/ /\ Raises("async_playwright")
        /\ exc' = ExcOf("async_playwright")
        /\ pc' = "except_single"
        /\ playwright' = playwright
  /\ UNCHANGED <<inputs, page, search_data, context, state_file, returned, response>>

\* launch_persistent_context (session) / chromium.launch (simple)
Launch ==
  /\ pc = "launch"
  /\ \/ /\ Ok("launch")
        /\ context' = "open"
        /\ pc' = IF Session THEN "add_init_script" ELSE "new_context"
        /\ exc' = exc
     \/ /\ Raises("launch")
        /\ exc' = ExcOf("launch")
        /\ pc' = "except_outer"
        /\ context' = context
  /\ UNCHANGED <<inputs, page, search_data, playwright, state_file, returned, response>>

\* steps between the launch and the inner try: a failure goes to the outer
\* except, which has no close
Setup(step, next) ==
  /\ pc = step
  /\ \/ /\ Ok(step)
        /\ pc' = next
        /\ exc' = exc
        /\ search_data' = IF step = "new_page" THEN NewSearchData ELSE search_data
     \/ /\ Raises(step)
        /\ exc' = ExcOf(step)
        /\ pc' = "except_outer"
        /\ search_data' = search_data
  /\ UNCHANGED <<inputs, page, context, playwright, state_file, returned, response>>

NewContext == ~Session /\ Setup("new_context", "add_init_script")
AddInitScript == Setup("add_init_script", "new_page")
NewPage == Setup("new_page", "goto")

\* variant: no inner except, the failure goes straight to the outer one
TryStepUnhandled(step, next) ==
  /\ pc = step
  /\ \/ /\ Ok(step)
        /\ pc' = next
        /\ exc' = exc
     \/ /\ Raises(step)
        /\ exc' = ExcOf(step)
        /\ pc' = "except_outer"
  /\ UNCHANGED <<inputs, page, search_data, context, playwright, state_file, returned, response>>

\* a step of the inner try whose failure reaches the inner except
TryStep(step, next) ==
  /\ pc = step
  /\ \/ /\ Ok(step)
        /\ pc' = next
        /\ exc' = exc
     \/ /\ Raises(step)
        /\ exc' = ExcOf(step)
        /\ pc' = "except_inner"
  /\ UNCHANGED <<inputs, page, search_data, context, playwright, state_file, returned, response>>

\* variant: a failed navigation is logged and the query is typed anyway
GotoIgnoringFailure ==
  /\ pc = "goto"
  /\ Ok("goto") \/ Raises("goto")
  /\ pc' = IF Session THEN "consent" ELSE "type_query"
  /\ UNCHANGED <<inputs, page, search_data, context, playwright, exc, state_file, returned, response>>

Goto == TryStep("goto", IF Session THEN "consent" ELSE "type_query")

\* cookie consent, inside its own try: a failure is logged and ignored
Consent ==
  /\ pc = "consent"
  /\ Ok("consent") \/ Raises("consent")
  /\ pc' = "type_query"
  /\ UNCHANGED <<inputs, page, search_data, context, playwright, exc, state_file, returned, response>>

\* click the search box, type the query, press Enter
TypeQuery == TryStep("type_query", "wait_for_selector")

\* variant: the timeout is logged and extraction goes on
WaitForResultsIgnoringTimeout ==
  /\ pc = "wait_for_selector"
  /\ Ok("wait_for_selector") \/ Raises("wait_for_selector")
  /\ page' \in Pages
  /\ pc' = "metadata"
  /\ UNCHANGED <<inputs, search_data, context, playwright, exc, state_file, returned, response>>

\* page.wait_for_selector("#search", timeout=50000): on success the results
\* page is rendered, on a timeout the inner except takes over
WaitForResults ==
  /\ pc = "wait_for_selector"
  /\ \/ /\ Ok("wait_for_selector")
        /\ page' \in Pages
        /\ pc' = "metadata"
        /\ exc' = exc
     \/ /\ Raises("wait_for_selector")
        /\ exc' = ExcOf("wait_for_selector")
        /\ pc' = "except_inner"
        /\ page' = page
  /\ UNCHANGED <<inputs, search_data, context, playwright, state_file, returned, response>>

\* ------------------------------------------------------ extraction regions
\* what a region's loop has appended when reading item k+1 raised
PartialTexts(items, cap) ==
  {StrippedTexts(Take(Take(items, cap), k)) : k \in 0..Len(Take(items, cap))}

PartialItems(items, cap) ==
  {ProbedItems(Take(Take(items, cap), k)) : k \in 0..Len(Take(items, cap))}

\* a region inside its own try/except: on success the field holds `full`;
\* when a probe raises, the field holds what had been stored until then and
\* the except logs a warning and falls through to the next region
Region(step, next, field, full, partial) ==
  /\ pc = step
  /\ \/ /\ Ok(step)
        /\ search_data' = [search_data EXCEPT ![field] = full]
     \/ /\ Raises(step)
        /\ \E v \in partial : search_data' = [search_data EXCEPT ![field] = v]
  /\ pc' = next
  /\ UNCHANGED <<inputs, page, context, playwright, exc, state_file, returned, response>>

ExtractMetadata ==
  Region("metadata", IF Session THEN "featured" ELSE "organic", "search_metadata",
         ExtractMetadataOf(page.regions), {EmptyDict})

ExtractFeatured ==
  Region("featured", "organic", "featured_snippet",
         ExtractFeaturedOf(page.regions),
         {NoneObj} \cup
           (IF page.regions.featured.text = NoElem THEN {}
            ELSE {[text |-> page.regions.featured.text, source |-> PyNone]}))

\* the candidate list is located outside any region try: a failure of
\* locator(...).all() reaches the inner except; the loop body has its own try
ExtractOrganicResults ==
  /\ pc = "organic"
  /\ \/ /\ Ok("organic")
        /\ search_data' = [search_data EXCEPT
                             !.organic_results = ExtractOrganic(page.result_divs, max_results)]
        /\ pc' = IF Session THEN "paa" ELSE "finally"
        /\ exc' = exc
     \/ /\ Raises("organic")
        /\ exc' = ExcOf("organic")
        /\ pc' = "except_inner"
        /\ search_data' = search_data
  /\ UNCHANGED <<inputs, page, context, playwright, state_file, returned, response>>

ExtractPaa ==
  Region("paa", "related", "people_also_ask",
         ExtractPaaOf(page.regions), PartialTexts(page.regions.paa, PaaCap))

ExtractRelated ==
  Region("related", "videos", "related_searches",
         ExtractRelatedOf(page.regions), PartialTexts(page.regions.related, RelatedCap))

ExtractVideos ==
  Region("videos", "ads", "video_results",
         ExtractVideosOf(page.regions),
         IF page.regions.videos.section
           THEN PartialItems(page.regions.videos.items, VideoCap) ELSE {<<>>})

ExtractAds ==
  Region("ads", "local", "ads",
         ExtractAdsOf(page.regions), PartialItems(page.regions.ads, AdsCap))

ExtractLocal ==
  Region("local", "storage_state", "local_results",
         ExtractLocalOf(page.regions),
         IF page.regions.local.pack
           THEN PartialItems(page.regions.local.items, LocalCap) ELSE {<<>>})

\* variant: the state is written a second time after the first write
SaveStateTwice ==
  /\ pc = "storage_state"
  /\ \/ /\ Ok("storage_state")
        /\ state_file' = state_file + 2
        /\ pc' = "finally"
        /\ exc' = exc
     \/ /\ Raises("storage_state")
        /\ exc' = ExcOf("storage_state")
        /\ pc' = "except_inner"
        /\ state_file' = state_file
  /\ UNCHANGED <<inputs, page, search_data, context, playwright, returned, response>>

\* context.storage_state(path=state_file), the last statement of the try body
SaveState ==
  /\ pc = "storage_state"
  /\ \/ /\ Ok("storage_state")
        /\ state_file' = state_file + 1
        /\ pc' = "finally"
        /\ exc' = exc
     \/ /\ Raises("storage_state")
        /\ exc' = ExcOf("storage_state")
        /\ pc' = "except_inner"
        /\ state_file' = state_file
  /\ UNCHANGED <<inputs, page, search_data, context, playwright, returned, response>>

\* ------------------------------------------------------- handlers, teardown
\* str(e)
Message(e) ==
  CASE e = "TimeoutError" -> "Timeout 50000ms exceeded."
    [] e = "OSError"      -> "[Errno 28] No space left on device"
    [] OTHER              -> "Target page, context or browser has been closed"

PyStr(s) == [type |-> "str", value |-> s]
PyDict(d) == [type |-> "dict", value |-> d]

\* str(x) for the values the error field holds
DictRepr == "{'timestamp': ..., 'query': ..., 'error': ..., 'error_type': ..., 'screenshot': ...}"
Str(x) == IF x.type = "str" THEN x.value ELSE DictRepr

\* search_data['error'] as each scraper builds it
ErrorField(e) ==
  IF Session
    THEN PyDict([timestamp |-> Now, query |-> Query, error |-> Message(e),
                 error_type |-> e, screenshot |-> ScreenshotPath])
    ELSE PyStr(Message(e))

\* inner except: the session scraper attempts a screenshot (its failure is
\* logged and ignored), both scrapers store the error and return search_data
ExceptInner ==
  /\ pc = "except_inner"
  /\ IF Session
       THEN /\ log' = Append(log, "screenshot")
            /\ failed' \in {failed, failed \cup {"screenshot"}}
       ELSE UNCHANGED <<log, failed>>
  /\ search_data' = ("error" :> ErrorField(exc)) @@ search_data
  /\ exc' = NoExc
  /\ pc' = "finally"
  /\ UNCHANGED <<inputs, page, context, playwright, state_file, returned, response>>

\* finally: context.close() / browser.close(); when it raises, the exception
\* replaces the pending return and reaches the outer except
Finally ==
  /\ pc = "finally"
  /\ \/ /\ Ok("close")
        /\ context' = "closed"
        /\ returned' = search_data
        /\ pc' = "aexit"
        /\ exc' = exc
     \/ /\ Raises("close")
        /\ exc' = ExcOf("close")
        /\ pc' = "except_outer"
        /\ UNCHANGED <<context, returned>>
  /\ UNCHANGED <<inputs, page, search_data, playwright, state_file, response>>

\* outer except: logs "Fatal error in search method" and re-raises
ExceptOuter ==
  /\ pc = "except_outer"
  /\ pc' = "aexit"
  /\ log' = Append(log, "raise")
  /\ UNCHANGED <<inputs, page, search_data, context, playwright, exc, failed, state_file,
                 returned, response>>

\* leaving the async with block, by return or by exception
PlaywrightExit ==
  /\ pc = "aexit"
  /\ playwright' = "stopped"
  /\ pc' = IF exc # NoExc THEN "except_single" ELSE "respond"
  /\ UNCHANGED <<inputs, page, search_data, context, exc, log, failed, state_file,
                 returned, response>>

RespondCountingPartial ==
  /\ pc = "respond"
  /\ \E save_to_file \in BOOLEAN : UNCHANGED <<log, failed>>
  /\ response' =
       [success |-> "error" \notin DOMAIN returned, query |-> Query,
        timestamp |-> returned.timestamp,
        results_count |-> Len(returned.organic_results), data |-> returned,
        error |-> IF "error" \in DOMAIN returned THEN Str(returned.error) ELSE PyNone]
  /\ pc' = "done"
  /\ UNCHANGED <<inputs, page, search_data, context, playwright, exc, state_file, returned>>

\* search_single, lines 77-110: with save_to_file the document is written to
\* a results file first; the write is outside the scraper, its failure is
\* logged and ignored and leaves search_data as it is. Then the response for
\* the returned document is built.
Respond ==
  /\ pc = "respond"
  /\ \E save_to_file \in BOOLEAN : UNCHANGED <<log, failed>>
  /\ response' =
       IF "error" \in DOMAIN returned
         THEN [success |-> FALSE, query |-> Query, timestamp |-> returned.timestamp,
               results_count |-> 0, data |-> returned,
               error |-> Str(returned.error)]
         ELSE [success |-> TRUE, query |-> Query, timestamp |-> returned.timestamp,
               results_count |-> Len(returned.organic_results), data |-> returned,
               error |-> PyNone]
  /\ pc' = "done"
  /\ UNCHANGED <<inputs, page, search_data, context, playwright, exc, state_file, returned>>

\* variant: the failed response carries no error text
ExceptSingleNoError ==
  /\ pc = "except_single"
  /\ response' = [success |-> FALSE, query |-> Query, timestamp |-> Now,
                  results_count |-> 0, data |-> EmptyDict, error |-> PyNone]
  /\ exc' = NoExc
  /\ pc' = "done"
  /\ UNCHANGED <<inputs, page, search_data, context, playwright, log, failed, state_file,
                 returned>>

\* search_single, lines 112-121: any exception becomes a failed response
ExceptSingle ==
  /\ pc = "except_single"
  /\ response' = [success |-> FALSE, query |-> Query, timestamp |-> Now,
                  results_count |-> 0, data |-> EmptyDict, error |-> Message(exc)]
  /\ exc' = NoExc
  /\ pc' = "done"
  /\ UNCHANGED <<inputs, page, search_data, context, playwright, log, failed, state_file,
                 returned>>

Next ==
  \/ Construct \/ PlaywrightStart \/ Launch \/ NewContext \/ AddInitScript \/ NewPage
  \/ Goto \/ Consent \/ TypeQuery \/ WaitForResults
  \/ ExtractMetadata \/ ExtractFeatured \/ ExtractOrganicResults \/ ExtractPaa
  \/ ExtractRelated \/ ExtractVideos \/ ExtractAds \/ ExtractLocal \/ SaveState
  \/ ExceptInner \/ Finally \/ ExceptOuter \/ PlaywrightExit \/ Respond \/ ExceptSingle

Spec == Init /\ [][Next]_vars

\* ------------------------------------------------------------- properties
Done == pc = "done"

Did(step) == \E i \in 1..Len(log) : log[i] = step

\* search() handed a document back to search_single
DocReturned == returned # NoDoc

SeqFields == {"organic_results", "people_also_ask", "related_searches",
              "video_results", "ads", "local_results"}

\* the regions each scraper extracts
RegionSteps == {"metadata", "featured", "organic", "paa", "related", "videos",
                "ads", "local"}
RegionsOf(m) == IF m = "session" THEN RegionSteps ELSE {"metadata", "organic"}

FieldOf(R) ==
  CASE R = "metadata" -> "search_metadata"
    [] R = "featured" -> "featured_snippet"
    [] R = "organic"  -> "organic_results"
    [] R = "paa"      -> "people_also_ask"
    [] R = "related"  -> "related_searches"
    [] R = "videos"   -> "video_results"
    [] R = "ads"      -> "ads"
    [] R = "local"    -> "local_results"

\* the value a region's field has when its extraction ran undisturbed
Extracted(R) ==
  CASE R = "metadata" -> ExtractMetadataOf(page.regions)
    [] R = "featured" -> ExtractFeaturedOf(page.regions)
    [] R = "organic"  -> ExtractOrganic(page.result_divs, max_results)
    [] R = "paa"      -> ExtractPaaOf(page.regions)
    [] R = "related"  -> ExtractRelatedOf(page.regions)
    [] R = "videos"   -> ExtractVideosOf(page.regions)
    [] R = "ads"      -> ExtractAdsOf(page.regions)
    [] R = "local"    -> ExtractLocalOf(page.regions)

\* failures the scraper does not swallow in place
EscapingSteps == {"async_playwright", "launch", "new_context", "add_init_script",
                  "new_page", "close"}
HandledSteps == {"goto", "type_query", "wait_for_selector", "organic", "storage_state"}

\* the candidates of the page that carry a non-empty title, in page order
Titled(divs) == SelectSeq(divs, LAMBDA d : Truthy(d.title))

TitlesOf(results) == [i \in 1..Len(results) |-> results[i].title]
TitlesOfDivs(divs) == [i \in 1..Len(divs) |-> divs[i].title]

\* C1: the position values of organic_results are exactly 1..len, in order,
\* so a candidate dropped for lacking a title consumes no position number.
C1_PositionsDense ==
  search_data # NoDoc =>
    \A i \in 1..Len(search_data.organic_results) :
      search_data.organic_results[i].position = i

C3_RegionIsolation ==
  (Done /\ Session /\ failed # {} /\ failed \subseteq RegionSteps) =>
    /\ DocReturned
    /\ "error" \notin DOMAIN returned
    /\ \A R \in RegionsOf(mode) :
         returned[FieldOf(R)] = IF R \in failed THEN NewSearchData[FieldOf(R)]
                                               ELSE Extracted(R)

\* C4: a failure to persist the storage state leaves the primary result
\* intact: no error field, success=true, results_count = number of organic
\* results.
C4_PersistFailureNotFatal ==
  (Done /\ failed = {"storage_state"}) =>
    /\ response.success
    /\ "error" \notin DOMAIN response.data
    /\ response.results_count = Len(response.data.organic_results)

\* C5 (as stated): every session-mode search that loaded the home page
\* persists the storage state exactly once before the session closes, on
\* success and failure paths alike.
C5_PersistOnEveryPath ==
  (Done /\ Session /\ Did("goto") /\ "goto" \notin failed) =>
    Count(log, "storage_state") = 1

\* C5 (amended): a session-mode search persists the storage state exactly
\* once, before the context is closed, when every step of the try body up to
\* it succeeded or failed inside a region; when navigation, typing, the wait
\* for results or locating the organic candidates fails, the state is not
\* persisted at all. state.json is written at most once per search.
C5_PersistOnSuccessPathOnly ==
  (Done \/ pc \in {"finally", "aexit", "respond"}) =>
    LET reached == failed \cap {"construct", "async_playwright", "launch",
                                "new_context", "add_init_script", "new_page", "goto",
                                "type_query", "wait_for_selector", "organic"} = {}
    IN /\ Count(log, "storage_state") = IF Session /\ reached THEN 1 ELSE 0
       /\ state_file = IF Session /\ reached /\ "storage_state" \notin failed
                         THEN 1 ELSE 0
       /\ \A i, j \in 1..Len(log) :
            (log[i] = "storage_state" /\ log[j] = "close") => i < j

C5_Witness ==
  /\ Done /\ Session /\ state_file = 1 /\ context = "closed"
  /\ failed \cap RegionSteps # {}

\* C6: a search that acquired a browser or context closes it before the
\* search call returns or raises, whatever step failed.
C6_AlwaysReleased ==
  (Done /\ Did("launch") /\ "launch" \notin failed) => Did("close")

C8_TimeoutIsError ==
  "wait_for_selector" \in failed =>
    /\ \A R \in RegionSteps : ~Did(R)
    /\ DocReturned => /\ "error" \in DOMAIN returned
                      /\ returned.organic_results = <<>>
    /\ Done => /\ ~response.success
               /\ response.error # PyNone
               /\ response.results_count = 0

C8_Witness ==
  /\ Done /\ "wait_for_selector" \in failed /\ DocReturned
  /\ response.data = returned /\ context = "closed"

\* C9: search_single never propagates a failure: whatever a scraper raised,
\* also before any browser was launched, the call ends with a response whose
\* success is false and whose error is a non-null string.
C9_FailureBecomesResponse ==
  /\ pc # "done" => ENABLED Next
  /\ Done => /\ response # NoResp
             /\ exc = NoExc
             /\ ~DocReturned => /\ ~response.success
                                /\ response.error # PyNone

C9_Witness ==
  /\ Done /\ ~DocReturned /\ context = "none"
  /\ failed \cap {"construct", "async_playwright", "launch"} # {}
  /\ ~response.success

\* C10: every response, also for a session that failed at launch or
\* navigation, carries a document with every sequence field present as a
\* list.
C10_SequenceFieldsPresent ==
  response # NoResp => SeqFields \subseteq DOMAIN response.data

\* ------------------------------------------------- session state machine
\* the state of the session driver in which a step runs:
\* 1 Launching, 2 Ready -> Searching, 3 ResultsLoaded, 4 Errored, 5 Closed
PhaseOf(step) ==
  CASE step \in {"construct", "async_playwright", "launch", "new_context",
                 "add_init_script", "new_page"} -> 1
    [] step \in {"goto", "consent", "type_query", "wait_for_selector"} -> 2
    [] step \in RegionSteps \cup {"storage_state"} -> 3
    [] step = "screenshot" -> 4
    [] step \in {"close", "raise"} -> 5

\* every b in the log has an a earlier in the log
Before(a, b) ==
  \A j \in 1..Len(log) : log[j] = b => \E i \in 1..(j - 1) : log[i] = a

Succeeded(step) == Did(step) /\ step \notin failed

\* C20: the steps of a session run in the order of its states: the query is
\* typed only after the navigation to the home page, extraction runs only
\* after the results container appeared, the error handler is entered only
\* once the browser was launched (from searching or from the loaded results),
\* and no browser step runs after the close.
C20_StateOrder ==
  /\ \A i \in 1..(Len(log) - 1) : PhaseOf(log[i]) <= PhaseOf(log[i + 1])
  /\ Did("type_query") => Succeeded("goto") /\ Before("goto", "type_query")
  /\ \A j \in 1..Len(log) :
       PhaseOf(log[j]) = 3 =>
         /\ "wait_for_selector" \notin failed
         /\ \E i \in 1..(j - 1) : log[i] = "wait_for_selector"
  /\ pc = "except_inner" =>
       /\ Succeeded("launch") /\ Succeeded("new_page")
       /\ failed \cap (HandledSteps) # {}
       /\ ~Did("close")
  /\ Succeeded("close") => /\ log[Len(log)] = "close"
                           /\ pc \in {"aexit", "respond", "done"}
  /\ Count(log, "close") <= 1

C20_Witness ==
  /\ Done /\ Session /\ response.success /\ context = "closed"
  /\ Did("goto") /\ Did("type_query") /\ Did("wait_for_selector") /\ Did("local")

\* ===================================================== batches and jobs
\* How a finished search_single call looks to the loop that awaited it: the
\* success flag of its SearchResponse and the state it left the browser in.
CallOutcomes ==
  {[success |-> TRUE,  browser |-> "closed"],
   [success |-> FALSE, browser |-> "closed"],
   [success |-> FALSE, browser |-> "none"],
   [success |-> FALSE, browser |-> "open"]}

\* every finished call of Spec is one of CallOutcomes
CallOutcomeOfSession ==
  Done => [success |-> response.success, browser |-> context] \in CallOutcomes

\* search_single's default profile_name (search_service.py line 54)
DefaultProfile == "api_google_profile"

\* each client names a profile of its own
ProfileOf(client) == "profile_" \o ToString(client)

\* (delay_min, delay_max) pairs a BatchSearchRequest accepts: each at least 1,
\* in either order (models/search.py lines 90-91)
DelayRanges == {<<1, 2>>, <<2, 1>>}

\* the BatchSearchRequest bodies a client may send
Requests(client) ==
  {[queries |-> [k \in 1..n |-> k], delay_min |-> r[1], delay_max |-> r[2],
    profile_name |-> ProfileOf(client)] : n \in 1..MaxQueries, r \in DelayRanges}

\* result.dict() of the SearchResponse for one query
ResponseOf(query, success) == [query |-> query, success |-> success]

\* random.randint(a, b): an integer of [a, b]; ValueError when a > b
Randint(a, b) == a..b
RandintError == "empty range for randrange()"

\* random.uniform(a, b) = a + (b - a) * random(): between the two, whichever
\* is larger
Uniform(a, b) == IF a <= b THEN a..b ELSE b..a

\* ------------------------------------------------------------- JobService
\* f"{current}/{total}"
Progress(current, total) == ToString(current) \o "/" \o ToString(total)

create_job_evicting(js, job_id, request) ==
  (job_id :> [status |-> "started",
              progress |-> Progress(0, Len(request.queries)),
              results |-> <<>>,
              created_at |-> Now,
              completed_at |-> PyNone,
              request |-> request])
    @@ [jid \in {j \in DOMAIN js : js[j].status # "failed"} |-> js[jid]]

create_job(js, job_id, request) ==
  (job_id :> [status |-> "started",
              progress |-> Progress(0, Len(request.queries)),
              results |-> <<>>,
              created_at |-> Now,
              completed_at |-> PyNone,
              request |-> request]) @@ js

update_job_progress_keeping_status(js, job_id, current, total) ==
  IF job_id \in DOMAIN js
  THEN [js EXCEPT ![job_id].progress = Progress(current, total)]
  ELSE js

update_job_progress(js, job_id, current, total) ==
  IF job_id \in DOMAIN js
  THEN [js EXCEPT ![job_id].progress = Progress(current, total),
                  ![job_id].status = "running"]
  ELSE js

complete_job(js, job_id, results) ==
  IF job_id \in DOMAIN js
  THEN [js EXCEPT ![job_id].status = "completed",
                  ![job_id].results = results,
                  ![job_id].completed_at = Now]
  ELSE js

fail_job_keeping_time(js, job_id, error) ==
  IF job_id \in DOMAIN js
  THEN [js EXCEPT ![job_id] = ("error" :> error) @@ [@ EXCEPT !.status = "failed"]]
  ELSE js

fail_job(js, job_id, error) ==
  IF job_id \in DOMAIN js
  THEN [js EXCEPT ![job_id] =
          ("error" :> error) @@ [@ EXCEPT !.status = "failed",
                                          !.completed_at = Now]]
  ELSE js

\* dict.get(key): None when the key is missing
Get(d, key) == IF key \in DOMAIN d THEN d[key] ELSE PyNone

get_job(js, job_id) ==
  IF job_id \notin DOMAIN js
  THEN NoneObj
  ELSE [job_id |-> job_id,
        status |-> js[job_id].status,
        progress |-> js[job_id].progress,
        results |-> Get(js[job_id], "results"),
        error |-> Get(js[job_id], "error"),
        created_at |-> Get(js[job_id], "created_at"),
        completed_at |-> Get(js[job_id], "completed_at")]

\* the count clear_completed_jobs returns
completed_count(js) ==
  Cardinality({jid \in DOMAIN js : js[jid].status = "completed"})

clear_finished_jobs(js) ==
  [jid \in {j \in DOMAIN js : js[j].status \notin {"completed", "failed"}} |-> js[jid]]

\* the map clear_completed_jobs leaves
clear_completed_jobs(js) ==
  [jid \in {j \in DOMAIN js : js[j].status # "completed"} |-> js[jid]]

get_active_jobs_count(js) == Cardinality(DOMAIN js)

\* ---------------------------------------------------------- background jobs
\* POST /api/jobs/batch-async: create the job, schedule its background task
create_batch_job ==
  /\ next_job < MaxJobs
  /\ \E request \in Requests(next_job + 1) :
       LET job_id == next_job + 1 IN
         /\ jobs' = create_job(jobs, job_id, request)
         /\ tasks' = (job_id :> [pc |-> "scheduled", i |-> 0, results |-> <<>>,
                                 request |-> request, sleep |-> 0,
                                 delays |-> 0]) @@ tasks
         /\ next_job' = job_id
  /\ UNCHANGED <<mode, max_results, session_vars, deleted, batch, sessions>>

\* the search_single call the background loop makes for its i-th query; the
\* request's profile_name is not among its arguments
BgCall(job_id, i) ==
  [owner |-> job_id, k |-> i, profile_name |-> DefaultProfile]

BgNextQueryFirstOnly(job_id) ==
  LET t == tasks[job_id] IN
    /\ t.pc = "scheduled"
    /\ jobs' = update_job_progress(jobs, job_id, 0, Len(t.request.queries))
    /\ tasks' = [tasks EXCEPT ![job_id].pc = "searching"]
    /\ sessions' = sessions \cup {BgCall(job_id, 0)}
    /\ UNCHANGED <<mode, max_results, session_vars, next_job, deleted, batch>>

\* run_batch_search_background, lines 67-75: the top of one loop iteration,
\* entered when the task first runs and again when a sleep is over
BgNextQuery(job_id) ==
  LET t == tasks[job_id]
      i == IF t.pc = "scheduled" THEN 0 ELSE t.i + 1
  IN
    /\ t.pc \in {"scheduled", "sleeping"}
    /\ jobs' = update_job_progress(jobs, job_id, i, Len(t.request.queries))
    /\ tasks' = [tasks EXCEPT ![job_id].pc = "searching", ![job_id].i = i,
                              ![job_id].sleep = 0]
    /\ sessions' = sessions \cup {BgCall(job_id, i)}
    /\ UNCHANGED <<mode, max_results, session_vars, next_job, deleted, batch>>

BgSearchReturnsFailingJob(job_id) ==
  LET t == tasks[job_id]
      n == Len(t.request.queries)
  IN
    /\ t.pc = "searching"
    /\ sessions' = sessions \ {s \in sessions : s.owner = job_id}
    /\ \E success \in BOOLEAN :
         LET results == Append(t.results, ResponseOf(t.request.queries[t.i + 1], success))
         IN
           IF ~success \/ (t.i < n - 1 /\ t.request.delay_min > t.request.delay_max)
           THEN /\ tasks' = [tasks EXCEPT ![job_id].pc = "finished",
                                          ![job_id].results = results]
                /\ jobs' = fail_job(jobs, job_id, RandintError)
           ELSE IF t.i < n - 1
           THEN /\ \E delay \in Randint(t.request.delay_min, t.request.delay_max) :
                     tasks' = [tasks EXCEPT ![job_id].pc = "sleeping",
                                 ![job_id].results = results,
                                 ![job_id].sleep = delay,
                                 ![job_id].delays = @ + 1]
                /\ jobs' = jobs
           ELSE /\ tasks' = [tasks EXCEPT ![job_id].pc = "finished",
                                          ![job_id].results = results]
                /\ jobs' = complete_job(jobs, job_id, results)
    /\ UNCHANGED <<mode, max_results, session_vars, next_job, deleted, batch>>

\* run_batch_search_background, lines 77-89: search_single has returned; the
\* response is appended, then either the delay is drawn and slept, or the
\* draw raises and the job fails, or the loop is over and the job completes
BgSearchReturns(job_id) ==
  LET t == tasks[job_id]
      n == Len(t.request.queries)
  IN
    /\ t.pc = "searching"
    /\ sessions' = sessions \ {s \in sessions : s.owner = job_id}
    /\ \E success \in BOOLEAN :
         LET results == Append(t.results, ResponseOf(t.request.queries[t.i + 1], success))
         IN
           IF t.i < n - 1
           THEN IF t.request.delay_min <= t.request.delay_max
                THEN /\ \E delay \in Randint(t.request.delay_min, t.request.delay_max) :
                          tasks' = [tasks EXCEPT ![job_id].pc = "sleeping",
                                      ![job_id].results = results,
                                      ![job_id].sleep = delay,
                                      ![job_id].delays = @ + 1]
                     /\ jobs' = jobs
                ELSE /\ tasks' = [tasks EXCEPT ![job_id].pc = "finished",
                                               ![job_id].results = results]
                     /\ jobs' = fail_job(jobs, job_id, RandintError)
           ELSE /\ tasks' = [tasks EXCEPT ![job_id].pc = "finished",
                                          ![job_id].results = results]
                /\ jobs' = complete_job(jobs, job_id, results)
    /\ UNCHANGED <<mode, max_results, session_vars, next_job, deleted, batch>>

\* DELETE /api/jobs/completed (job_router.py lines 50-59); the active_jobs
\* of the response is get_active_jobs_count of the map the request leaves
clear_completed_jobs_route ==
  /\ jobs' = clear_completed_jobs(jobs)
  /\ deleted' = [cleared_count |-> completed_count(jobs)]
  /\ UNCHANGED <<mode, max_results, session_vars, tasks, next_job, batch, sessions>>

\* the requests carry one mode and one max_results; no session is modelled
\* step by step here
InitJobs ==
  /\ mode = "session"
  /\ max_results = MaxResultsBound
  /\ SessionStart
  /\ LoopsIdle

NextJobs ==
  \/ create_batch_job
  \/ \E job_id \in DOMAIN tasks : BgNextQuery(job_id)
  \/ \E job_id \in DOMAIN tasks : BgSearchReturns(job_id)
  \/ clear_completed_jobs_route

SpecJobs == InitJobs /\ [][NextJobs]_vars

\* --------------------------------------------------------- job tracker claims
\* ids handed out so far, and one that never was
Created == 1..next_job
Running(job_id) == tasks[job_id].pc \in {"searching", "sleeping"}
QueriesOf(job_id) == Len(tasks[job_id].request.queries)

\* C15: a created job is Started with progress "0/N", no results and no
\* completion time until its task runs; while the task is in query i the job
\* is Running with the progress the task passed; a job is Completed exactly
\* when its task finished its loop, and then holds the task's results and a
\* completion time; an id never created is not found.
C15_Lifecycle ==
  /\ \A job_id \in DOMAIN jobs :
       LET job == jobs[job_id]
           t == tasks[job_id]
       IN
         /\ t.pc = "scheduled" =>
               job = [status |-> "started",
                      progress |-> Progress(0, QueriesOf(job_id)),
                      results |-> <<>>, created_at |-> Now,
                      completed_at |-> PyNone, request |-> t.request]
         /\ Running(job_id) =>
               /\ job.status = "running"
               /\ job.progress = Progress(t.i, QueriesOf(job_id))
               /\ job.results = <<>> /\ job.completed_at = PyNone
         /\ job.status = "completed" =>
               /\ t.pc = "finished" /\ Len(t.results) = QueriesOf(job_id)
               /\ job.results = t.results
               /\ job.completed_at = Now
         /\ get_job(jobs, job_id).status = job.status
         /\ get_job(jobs, job_id).progress = job.progress
  /\ \A job_id \in (1..(MaxJobs + 1)) \ Created : get_job(jobs, job_id) = NoneObj

C15_Witness ==
  /\ next_job = 2
  /\ DOMAIN jobs = {1, 2}
  /\ jobs[1].status = "completed" /\ Len(jobs[1].results) = 2
  /\ jobs[2].status = "running" /\ jobs[2].progress = "1/2"
  /\ get_job(jobs, 3) = NoneObj

\* jobs a step takes out of the map
Removed == DOMAIN jobs \ DOMAIN jobs'

\* C17: a step that fails a job sets its state to Failed, records the error
\* message and a completion time, changes nothing else of that job, and
\* leaves every other job of the map as it was.
C17_FailJob ==
  [][\A job_id \in DOMAIN jobs :
       (jobs[job_id].status # "failed" /\ job_id \in DOMAIN jobs'
          /\ jobs'[job_id].status = "failed") =>
         /\ "error" \in DOMAIN jobs'[job_id]
         /\ jobs'[job_id].error = RandintError
         /\ jobs'[job_id].completed_at = Now
         /\ \A key \in DOMAIN jobs[job_id] \ {"status", "completed_at"} :
              jobs'[job_id][key] = jobs[job_id][key]
         /\ DOMAIN jobs' = DOMAIN jobs
         /\ \A other \in DOMAIN jobs \ {job_id} : jobs'[other] = jobs[other]]_vars

C17_Witness ==
  /\ DOMAIN jobs = {1, 2}
  /\ jobs[1].status = "running"
  /\ jobs[2].status = "failed" /\ get_job(jobs, 2).error = RandintError
  /\ jobs[2].completed_at = Now

\* C19: a step that takes jobs out of the map is a clear_completed request
\* and nothing else: it takes out exactly the Completed jobs, answers with
\* their number, and leaves the Started, Running and Failed jobs as they were.
C19_ClearCompleted ==
  [][/\ Removed # {} =>
          /\ tasks' = tasks /\ next_job' = next_job /\ sessions' = sessions
          /\ deleted' # NoResp
     /\ (deleted' # deleted \/ Removed # {}) =>
          /\ Removed = {job_id \in DOMAIN jobs : jobs[job_id].status = "completed"}
          /\ DOMAIN jobs' \subseteq DOMAIN jobs
          /\ \A job_id \in DOMAIN jobs' : jobs'[job_id] = jobs[job_id]
          /\ deleted'.cleared_count = Cardinality(Removed)
          /\ get_active_jobs_count(jobs') = Cardinality(DOMAIN jobs) - Cardinality(Removed)]_vars

C19_Witness ==
  /\ deleted = [cleared_count |-> 1]
  /\ next_job = 2
  /\ DOMAIN jobs = {2}
  /\ jobs[2].status = "failed"
  /\ tasks[1].pc = "finished"

\* ------------------------------------------------------ synchronous batch
\* the client of POST /api/search/batch
BatchClient == 0

\* search_batch, lines 123-138: called with the request's fields
search_batch ==
  /\ batch = NoBatch
  /\ \E request \in Requests(BatchClient) :
       batch' = [pc |-> "called", i |-> 0, results |-> <<>>,
                 request |-> request, delays |-> <<>>, calls |-> <<>>]
  /\ UNCHANGED <<mode, max_results, session_vars, jobs, tasks, next_job,
                 deleted, sessions>>

\* search_batch, lines 140-151: the top of one loop iteration awaits
\* search_single with the batch's profile_name
BatchNextQuery ==
  LET i == IF batch.pc = "called" THEN 0 ELSE batch.i + 1 IN
    /\ batch # NoBatch
    /\ batch.pc \in {"called", "sleeping"}
    /\ batch' = [batch EXCEPT !.pc = "searching", !.i = i]
    /\ sessions' = sessions \cup {[owner |-> BatchClient, k |-> i,
                                   profile_name |-> batch.request.profile_name]}
    /\ UNCHANGED <<mode, max_results, session_vars, jobs, tasks, next_job,
                   deleted>>

BatchSearchReturnsOrAborts ==
  /\ batch # NoBatch
  /\ batch.pc = "searching"
  /\ sessions' = {}
  /\ \E outcome \in CallOutcomes :
       LET query == batch.request.queries[batch.i + 1]
           results == Append(batch.results, ResponseOf(query, outcome.success))
           calls == Append(batch.calls, [query |-> query] @@ outcome)
       IN
         IF batch.i < Len(batch.request.queries) - 1 /\ outcome.success
         THEN \E delay \in Uniform(batch.request.delay_min, batch.request.delay_max) :
                batch' = [batch EXCEPT !.pc = "sleeping", !.results = results,
                                       !.calls = calls,
                                       !.delays = Append(@, delay)]
         ELSE batch' = [batch EXCEPT !.pc = "returned", !.results = results,
                                     !.calls = calls]
  /\ UNCHANGED <<mode, max_results, session_vars, jobs, tasks, next_job,
                 deleted>>

\* search_batch, lines 152-165: search_single has returned, whatever its
\* outcome; the response is appended, then the delay is drawn and slept, or
\* the loop is over and the list is returned
BatchSearchReturns ==
  /\ batch # NoBatch
  /\ batch.pc = "searching"
  /\ sessions' = {}
  /\ \E outcome \in CallOutcomes :
       LET query == batch.request.queries[batch.i + 1]
           results == Append(batch.results, ResponseOf(query, outcome.success))
           calls == Append(batch.calls, [query |-> query] @@ outcome)
       IN
         IF batch.i < Len(batch.request.queries) - 1
         THEN \E delay \in Uniform(batch.request.delay_min, batch.request.delay_max) :
                batch' = [batch EXCEPT !.pc = "sleeping", !.results = results,
                                       !.calls = calls,
                                       !.delays = Append(@, delay)]
         ELSE batch' = [batch EXCEPT !.pc = "returned", !.results = results,
                                     !.calls = calls]
  /\ UNCHANGED <<mode, max_results, session_vars, jobs, tasks, next_job,
                 deleted>>

InitBatch ==
  /\ mode = "session"
  /\ max_results = MaxResultsBound
  /\ SessionStart
  /\ LoopsIdle

NextBatch ==
  \/ search_batch
  \/ BatchNextQuery
  \/ BatchSearchReturns

SpecBatch == InitBatch /\ [][NextBatch]_vars

\* ------------------------------------------------------------ batch claims
BatchReturned == batch # NoBatch /\ batch.pc = "returned"

\* C12: when search_batch returns, it has run one session per query, in
\* order, and its list holds exactly one response per query, the k-th being
\* the outcome of the k-th session, whichever of them failed; no response is
\* dropped or added on the way.
C12_AllQueriesAnswered ==
  batch # NoBatch =>
    /\ Len(batch.results) = Len(batch.calls)
    /\ \A k \in 1..Len(batch.results) :
         /\ batch.calls[k].query = batch.request.queries[k]
         /\ batch.results[k] = ResponseOf(batch.request.queries[k],
                                          batch.calls[k].success)
    /\ batch.pc = "returned" => Len(batch.results) = Len(batch.request.queries)

C12_Witness ==
  /\ BatchReturned
  /\ Len(batch.request.queries) = 2
  /\ ~batch.calls[1].success /\ batch.calls[1].browser = "none"
  /\ batch.results = <<ResponseOf(1, FALSE), ResponseOf(2, TRUE)>>

OneCallAtATime ==
  /\ \A s1, s2 \in sessions : s1.owner = s2.owner => s1 = s2
  /\ \A s \in sessions :
       s.owner = BatchClient => Len(batch.calls) = s.k /\ Len(batch.delays) = s.k

\* ------------------------------------------------- delays, profiles, results
InRange(delay, request) ==
  request.delay_min <= delay /\ delay <= request.delay_max

\* C11: a loop that is over has slept exactly n-1 times, once after each
\* query but the last, and every delay slept lies within
\* [delay_min, delay_max]; for search_batch and for the background task.
C11_DelaysBetweenQueries ==
  /\ batch # NoBatch =>
       /\ \A k \in 1..Len(batch.delays) : InRange(batch.delays[k], batch.request)
       /\ Len(batch.delays) = IF batch.pc = "sleeping" THEN batch.i + 1 ELSE batch.i
       /\ batch.pc = "returned" =>
            Len(batch.delays) = Len(batch.request.queries) - 1
  /\ \A job_id \in DOMAIN tasks :
       LET t == tasks[job_id] IN
         /\ t.pc = "sleeping" => InRange(t.sleep, t.request)
         /\ t.delays = IF t.pc = "sleeping" THEN t.i + 1 ELSE t.i
         /\ t.pc = "finished" => t.delays = Len(t.request.queries) - 1

\* C14: two calls in progress whose jobs were created with different
\* profile_name values never use the same profile directory.
C14_DistinctProfilesApart ==
  \A s1, s2 \in sessions :
    tasks[s1.owner].request.profile_name # tasks[s2.owner].request.profile_name
      => s1.profile_name # s2.profile_name

\* C16: a Failed job carries the error message, and its results are the
\* responses of the queries that finished before the failure.
C16_PartialResultsKept ==
  \A job_id \in DOMAIN jobs :
    jobs[job_id].status = "failed" =>
      /\ get_job(jobs, job_id).error = RandintError
      /\ get_job(jobs, job_id).results = tasks[job_id].results

\* C18: as soon as k >= 1 queries of a job have finished, the job's progress
\* reads "k/N"; a Completed job reads "N/N".
C18_ProgressAfterEachQuery ==
  \A job_id \in DOMAIN jobs :
    LET k == Len(tasks[job_id].results) IN
      /\ k >= 1 => get_job(jobs, job_id).progress = Progress(k, QueriesOf(job_id))
      /\ jobs[job_id].status = "completed" =>
           get_job(jobs, job_id).progress =
             Progress(QueriesOf(job_id), QueriesOf(job_id))

\* ===================================================== extraction on its own
\* datetime.now().isoformat() at two moments
Later == "2024-01-01T00:00:09"
Clock == {Now, Later}

\* the document search() returns for the page p when no step raises, with
\* the timestamp taken at `now`
DocumentOf(p, now) ==
  IF mode = "session"
  THEN [NewSearchData EXCEPT
          !.timestamp = now,
          !.search_metadata = ExtractMetadataOf(p.regions),
          !.featured_snippet = ExtractFeaturedOf(p.regions),
          !.organic_results = ExtractOrganic(p.result_divs, max_results),
          !.people_also_ask = ExtractPaaOf(p.regions),
          !.related_searches = ExtractRelatedOf(p.regions),
          !.video_results = ExtractVideosOf(p.regions),
          !.ads = ExtractAdsOf(p.regions),
          !.local_results = ExtractLocalOf(p.regions)]
  ELSE [NewSearchData EXCEPT
          !.timestamp = now,
          !.search_metadata = ExtractMetadataOf(p.regions),
          !.organic_results = ExtractOrganic(p.result_divs, max_results)]

\* a call of Spec in which nothing raised returns DocumentOf of its page
ExtractionMatchesDocument ==
  (Done /\ failed = {} /\ DocReturned) => returned = DocumentOf(page, Now)

\* the results container has appeared on some page
InitExtract ==
  /\ mode \in {"session", "simple"}
  /\ max_results \in 1..MaxResultsBound
  /\ page \in ExtractPages
  /\ pc = "loaded"
  /\ search_data = NoDoc
  /\ context = "open"
  /\ playwright = "on"
  /\ exc = NoExc
  /\ log = <<>>
  /\ failed = {}
  /\ state_file = 0
  /\ returned = NoDoc
  /\ response = NoResp
  /\ LoopsIdle

\* one extraction of the page: lines 66-80 and 124-329 with no step raising
ExtractDocument ==
  /\ pc = "loaded"
  /\ \E now \in Clock : search_data' = DocumentOf(page, now)
  /\ pc' = "extracted"
  /\ UNCHANGED <<inputs, page, context, playwright, exc, log, failed, state_file,
                 returned, response>>

ExtractAgainFromScratch ==
  /\ pc = "extracted"
  /\ \E now \in Clock :
       returned' = [DocumentOf(page, now) EXCEPT
                      !.organic_results = ExtractOrganic(page.result_divs, 1)]
  /\ pc' = "extracted_twice"
  /\ UNCHANGED <<inputs, page, search_data, context, playwright, exc, log, failed,
                 state_file, response>>

\* a second extraction of the same, unchanged page
ExtractAgain ==
  /\ pc = "extracted"
  /\ \E now \in Clock : returned' = DocumentOf(page, now)
  /\ pc' = "extracted_twice"
  /\ UNCHANGED <<inputs, page, search_data, context, playwright, exc, log, failed,
                 state_file, response>>

NextExtract ==
  \/ ExtractDocument
  \/ ExtractAgain

SpecExtract == InitExtract /\ [][NextExtract]_vars

\* ------------------------------------------------------- extraction claims
HasDoc == search_data # NoDoc

\* C21: in every result document the organic results are at most
\* max_results, the questions at most 6, the related searches at most 8, the
\* videos at most 3, the ads at most 5, the local results at most 3, and the
\* sitelinks of each organic result at most 4.
C21_Caps ==
  HasDoc =>
    /\ Len(search_data.organic_results) <= max_results
    /\ Len(search_data.people_also_ask) <= 6
    /\ Len(search_data.related_searches) <= 8
    /\ Len(search_data.video_results) <= 3
    /\ Len(search_data.ads) <= 5
    /\ Len(search_data.local_results) <= 3
    /\ \A i \in 1..Len(search_data.organic_results) :
         "sitelinks" \in DOMAIN search_data.organic_results[i] =>
           Len(search_data.organic_results[i].sitelinks) <= 4

C21_Witness ==
  /\ HasDoc /\ mode = "session"
  /\ Len(page.result_divs) > max_results
  /\ Len(search_data.organic_results) = max_results
  /\ Len(page.regions.paa) = 7 /\ Len(search_data.people_also_ask) = 6
  /\ Len(page.regions.related) = 9 /\ Len(search_data.related_searches) = 8
  /\ Len(page.regions.videos.items) = 4 /\ Len(search_data.video_results) = 3
  /\ Len(page.regions.ads) = 6 /\ Len(search_data.ads) = 5
  /\ Len(page.regions.local.items) = 4 /\ Len(search_data.local_results) = 3
  /\ Len(page.result_divs[1].sitelinks) = 5
  /\ Len(search_data.organic_results[1].sitelinks) = 4

\* C22: every organic result carries a title that is a non-empty text, the
\* one its candidate block shows; a block whose h3 is missing, or whose text
\* is empty or null, is not among the results.
C22_TitlesNonEmpty ==
  HasDoc =>
    \A i \in 1..Len(search_data.organic_results) :
      LET result == search_data.organic_results[i] IN
        /\ "title" \in DOMAIN result
        /\ result.title \notin {NoElem, PyNone, ""}
        /\ result.title = page.result_divs[result.position].title

C22_Witness ==
  /\ HasDoc
  /\ max_results = 2 /\ Len(page.result_divs) = 2
  /\ page.result_divs[1].title \in {NoElem, PyNone, ""}
  /\ Len(search_data.organic_results) = 1
  /\ search_data.organic_results[1].title = "b"

\* the host component of an absolute URL
IsAbsolute(url) == url \in {AbsLink, PortLink}
HostOf(url) ==
  CASE url = AbsLink  -> "docs.python.org"
    [] url = PortLink -> "example.com"

\* C23: every organic result has a domain: the host of its block's link when
\* that link is an absolute URL, the empty string when the block has no link
\* element, a null href, or a link that is not an absolute URL.
C23_DomainOfLink ==
  HasDoc =>
    \A i \in 1..Len(search_data.organic_results) :
      LET result == search_data.organic_results[i]
          link == page.result_divs[result.position].link
      IN
        /\ "domain" \in DOMAIN result
        /\ result.domain = IF IsAbsolute(link) THEN HostOf(link) ELSE ""

\* what the code does keep of C23: a result whose block has a link element
\* carries the netloc of that link, or "" for an empty or null href
DomainIsNetloc ==
  HasDoc =>
    \A i \in 1..Len(search_data.organic_results) :
      LET result == search_data.organic_results[i]
          link == page.result_divs[result.position].link
      IN
        IF link = NoElem
        THEN "domain" \notin DOMAIN result /\ "link" \notin DOMAIN result
        ELSE /\ result.link = link
             /\ result.domain = IF link \in {PyNone, ""} THEN "" ELSE Netloc(link)

\* the same page with a featured snippet rendered
WithFeatured(p) == [p EXCEPT !.regions.featured = RichRegions.featured]

\* C24: the document of a page without featured-snippet markup has
\* featured_snippet = None and no error field, and each of its other fields
\* equals that field of the document of the same page with the snippet.
C24_FeaturedAbsent ==
  (HasDoc /\ page.regions.featured.text = NoElem) =>
    /\ search_data.featured_snippet = NoneObj
    /\ "error" \notin DOMAIN search_data
    /\ DOMAIN search_data = DOMAIN DocumentOf(WithFeatured(page), search_data.timestamp)
    /\ \A field \in DOMAIN search_data \ {"featured_snippet"} :
         search_data[field] =
           DocumentOf(WithFeatured(page), search_data.timestamp)[field]

C24_Witness ==
  /\ HasDoc /\ mode = "session"
  /\ page.regions = FeaturelessRegions
  /\ search_data.featured_snippet = NoneObj
  /\ DocumentOf(WithFeatured(page), Now).featured_snippet = RichRegions.featured
  /\ Len(search_data.organic_results) = 2
  /\ Len(search_data.people_also_ask) = 2
  /\ Len(search_data.local_results) = 1

\* ------------------------------------------------------------ error record
\* C25: a document returned with an error, in either mode, holds a record
\* with the timestamp, the query, the exception class, the screenshot path
\* and the last known URL, and a screenshot was attempted before the return.
C25_StructuredError ==
  (Done /\ DocReturned /\ "error" \in DOMAIN returned) =>
    /\ returned.error.type = "dict"
    /\ {"timestamp", "query", "error_type", "screenshot", "url"}
         \subseteq DOMAIN returned.error.value
    /\ Did("screenshot")

\* what the session scraper does keep of C25
SessionErrorRecord ==
  (Done /\ Session /\ DocReturned /\ "error" \in DOMAIN returned) =>
    /\ returned.error.type = "dict"
    /\ DOMAIN returned.error.value
         = {"timestamp", "query", "error", "error_type", "screenshot"}
    /\ Did("screenshot")

\* ------------------------------------------------------------- determinism
ExtractedTwice == pc = "extracted_twice"

Terminal(job) == job.status \in {"completed", "failed"}

\* C27: no step changes a job that is Completed or Failed; the only step
\* that takes such a job out of the map is a clear_completed request, and
\* only when the job is Completed. Polls read the map and write nothing.
C27_TerminalJobsFrozen ==
  [][\A job_id \in DOMAIN jobs :
       Terminal(jobs[job_id]) =>
         IF job_id \in DOMAIN jobs'
         THEN /\ jobs'[job_id] = jobs[job_id]
              /\ get_job(jobs', job_id) = get_job(jobs, job_id)
         ELSE /\ jobs[job_id].status = "completed"
              /\ deleted' # NoResp /\ deleted'.cleared_count >= 1
              /\ tasks' = tasks /\ next_job' = next_job]_vars

C27_Witness ==
  /\ next_job = 2
  /\ DOMAIN jobs = {1}
  /\ jobs[1].status = "failed" /\ jobs[1].progress = "0/2"
  /\ tasks[2].pc = "finished" /\ Len(tasks[2].results) = 2
  /\ deleted = [cleared_count |-> 1]

\* a background task that is ready to run
BgStep == \E job_id \in DOMAIN tasks : BgNextQuery(job_id) \/ BgSearchReturns(job_id)

\* the event loop keeps running ready tasks, and every search_single call and
\* every sleep returns
FairJobs == WF_vars(BgStep)

SpecJobsFair == SpecJobs /\ FairJobs

\* C28: from some moment on every job in the map is Completed or Failed: no
\* job stays Started or Running forever.
C28_JobsFinish ==
  <>[](\A job_id \in DOMAIN jobs : Terminal(jobs[job_id]))

C28_Witness ==
  /\ DOMAIN jobs = {1, 2}
  /\ jobs[1].status = "completed" /\ Len(jobs[1].results) = 1
  /\ jobs[2].status = "failed" /\ Len(tasks[2].results) = 1

\* C29: a Completed job holds one result per query, in query order, whatever
\* the success flags of its responses; a task whose queries were all
\* answered, even all with success = false, completes its job, and a job is
\* Failed only because the delay could not be drawn.
C29_CompletedHoldsAllResults ==
  \A job_id \in DOMAIN jobs :
    LET job == jobs[job_id]
        t == tasks[job_id]
        queries == t.request.queries
    IN
      /\ job.status = "completed" =>
           /\ Len(job.results) = Len(queries)
           /\ \A k \in 1..Len(queries) : job.results[k].query = queries[k]
      /\ (t.pc = "finished" /\ Len(t.results) = Len(queries)) =>
           job.status = "completed"
      /\ job.status = "failed" =>
           /\ t.request.delay_min > t.request.delay_max
           /\ Len(t.results) < Len(queries)

C29_Witness ==
  /\ 1 \in DOMAIN jobs
  /\ jobs[1].status = "completed"
  /\ jobs[1].results = <<ResponseOf(1, FALSE), ResponseOf(2, FALSE)>>
  /\ jobs[1].request.queries = <<1, 2>>

\* ---------------------------------------------------------------- response
\* C30: in every response of search_single, success is true exactly when
\* error is None; a successful response counts the organic results of its
\* document; a failed one has results_count 0, whatever its document holds.
C30_ResponseConsistent ==
  response # NoResp =>
    /\ response.success <=> response.error = PyNone
    /\ response.success =>
         response.results_count = Len(response.data.organic_results)
    /\ ~response.success => response.results_count = 0

C30_Witness ==
  /\ Done /\ ~response.success
  /\ response.error # PyNone
  /\ "organic_results" \in DOMAIN response.data
  /\ Len(response.data.organic_results) = 2
  /\ response.results_count = 0

====
